---- MODULE Spec2Model ----
(***************************************************************************)
(* PyTerminal: the classification-and-dispatch core of src/app.py (the     *)
(* Flask web terminal) and src/terminal.py (the line-reading REPL).        *)
(*                                                                         *)
(* A command line is a sequence of pieces: a piece is a word of Words or   *)
(* one blank SP.  Lines are well formed: two words are always separated by *)
(* at least one blank, so a token of command.split() is one word.  No word *)
(* of Words has a phrase word as a proper suffix or prefix, so Python's    *)
(* substring test `pattern in command.lower()` is the piece-wise test      *)
(* Contains below.                                                         *)
(***************************************************************************)
EXTENDS Naturals, Integers, Sequences, FiniteSets, TLC

\* program          which of the two programs the process runs
\* AI_ENABLED       the module flag set at import from the credential
\* fs, cwd          the filesystem and the working directory of the process
\* command_history  the dict of app.py: session token -> list of entries
\* thr              each thread's position, line, result and response, with
\*                  the history and the directory it found (hist0, cwd0),
\*                  the last run of the shell and what it left running,
\*                  the process table its listing found
\* sess_dir         per session: the start directory, then the current_dir
\*                  of the last response the session received (observer)
\* completed        per session: the dispatches answered after
\*                  add_to_history (observer)
VARIABLES program, AI_ENABLED, fs, cwd, command_history, thr, sess_dir, completed

vars == <<program, AI_ENABLED, fs, cwd, command_history, thr, sess_dir, completed>>

----------------------------------------------------------------------------
(* Text: words, blanks, lower(), strip(), split(), substring test.         *)

SP == " "

\* The 14 words of the list literal in run_command.
ReservedWords ==
    {"pwd", "ls", "cd", "mkdir", "rm", "cat", "cpu", "mem", "memory",
     "processes", "ps", "help", "tellmeabout_developer", "clear"}

\* Words that differ from their lower-cased form.
UpperWords == {"LS", "Clear", "SHOW", "EXIT", "History"}

\* Names of directory entries a path argument can name, and the other
\* argument words.
Names == {"d1", "f1"}

Words ==
    ReservedWords \cup UpperWords \cup Names \cup
    {"history", "exit", "quit", "q", "touch", "show", "me", "..", ".", "~"}

\* str.lower() on one word.
Lower(w) ==
    CASE w = "LS" -> "ls"
      [] w = "Clear" -> "clear"
      [] w = "SHOW" -> "show"
      [] w = "EXIT" -> "exit"
      [] w = "History" -> "history"
      [] OTHER -> w

\* command.lower()
LowerLine(line) == [i \in 1..Len(line) |-> Lower(line[i])]

RECURSIVE LStrip(_)
LStrip(line) ==
    IF line # <<>> /\ Head(line) = SP THEN LStrip(Tail(line)) ELSE line

RECURSIVE RStrip(_)
RStrip(line) ==
    IF line # <<>> /\ line[Len(line)] = SP
    THEN RStrip(SubSeq(line, 1, Len(line) - 1))
    ELSE line

\* command.strip()
Strip(line) == RStrip(LStrip(line))

IsWord(p) == p # SP

\* command.split(): the maximal runs of non-blank characters, in order.
Split(line) == SelectSeq(line, IsWord)

\* pattern in text, for a pattern and a text made of whole pieces.
Contains(text, pattern) ==
    \E i \in 1..Len(text) :
        /\ i + Len(pattern) - 1 <= Len(text)
        /\ SubSeq(text, i, i + Len(pattern) - 1) = pattern

natural_language_patterns ==
    { <<"show", SP, "me">>, <<"list", SP, "all">>, <<"create", SP, "a">>,
      <<"what", SP, "is">>, <<"how", SP, "to">>, <<"can", SP, "you">> }

\* any(pattern in command.lower() for pattern in natural_language_patterns)
PhraseTest(command) ==
    \E pattern \in natural_language_patterns :
        Contains(LowerLine(command), pattern)

----------------------------------------------------------------------------
(* Classification: the route run_command takes for one command line.       *)

Dispatchers == {"web", "cli"}

\* The words the if/elif chain of each run_command handles, with the
\* handler each is routed to.
ChainHandler(disp, cmd) ==
    CASE cmd = "pwd" -> "pwd"
      [] cmd = "ls" -> "ls"
      [] cmd = "cd" -> "cd"
      [] cmd = "mkdir" -> "mkdir"
      [] cmd = "rm" -> "rm"
      [] cmd = "cat" -> "cat"
      [] cmd = "cpu" -> "cpu"
      [] cmd \in {"mem", "memory"} -> "memory"
      [] cmd \in {"processes", "ps"} -> "processes"
      [] cmd = "help" -> "help"
      [] cmd = "tellmeabout_developer" -> "developer_info"
      [] cmd = "clear" /\ disp = "web" -> "clear"
      [] cmd = "history" /\ disp = "web" -> "history"
      [] OTHER -> "external"

Builtins ==
    {"pwd", "ls", "cd", "mkdir", "rm", "cat", "cpu", "memory", "processes",
     "help", "developer_info", "clear", "history"}

\* The first test of run_command: more than 2 tokens, a command word that
\* is not in the list, and the translator enabled.
\* (LengthTest_IgnoresEnabled is the test without its third conjunct.)
LengthTest_IgnoresEnabled(parts, ai) ==
    Len(parts) > 2 /\ Lower(parts[1]) \notin ReservedWords

LengthTest(parts, ai) ==
    /\ Len(parts) > 2
    /\ Lower(parts[1]) \notin ReservedWords
    /\ ai

\* run_command up to the call it makes: "empty", "ai", a builtin of
\* Builtins, or "external".
\* (Route_PhraseLast is the function with the phrase test moved behind
\* the if/elif chain.)
Route_PhraseLast(disp, command, ai) ==
    LET parts == Split(Strip(command)) IN
    IF parts = <<>> THEN "empty"
    ELSE IF LengthTest(parts, ai) THEN "ai"
    ELSE IF ChainHandler(disp, Lower(parts[1])) # "external"
         THEN ChainHandler(disp, Lower(parts[1]))
    ELSE IF PhraseTest(command) /\ ai THEN "ai"
    ELSE "external"

Route(disp, command, ai) ==
    LET parts == Split(Strip(command)) IN
    IF parts = <<>> THEN "empty"
    ELSE IF LengthTest(parts, ai) THEN "ai"
    ELSE IF PhraseTest(command) /\ ai THEN "ai"
    ELSE ChainHandler(disp, Lower(parts[1]))

\* args = parts[1:] if len(parts) > 1 else []
Args(command) == Tail(Split(Strip(command)))

----------------------------------------------------------------------------
(* The filesystem the builtins act on, and the process working directory.  *)
(* A path is the sequence of entry names from the root; the volume holds   *)
(* entries named in Names only, down to MaxPathLen levels, and the OS      *)
(* refuses (OSError) to create anything else.                              *)

MaxPathLen == 2

RECURSIVE PathsOfLen(_)
PathsOfLen(n) ==
    IF n = 0 THEN { <<>> }
    ELSE { Append(p, x) : p \in PathsOfLen(n - 1), x \in Names }

AllPaths == UNION { PathsOfLen(n) : n \in 0..MaxPathLen }

\* A path the volume cannot hold.
OutOfTree == <<"?">>

\* expanduser("~"): the home directory of the user running the process.
HomeDir == <<>>

Parent(p) == IF p = <<>> THEN <<>> ELSE SubSeq(p, 1, Len(p) - 1)

\* The path a relative argument names, seen from directory d.
Resolve(d, arg) ==
    CASE arg = ".." -> Parent(d)
      [] arg = "." -> d
      [] arg \in Names /\ Len(d) < MaxPathLen -> Append(d, arg)
      [] OTHER -> OutOfTree

\* "none", "dir" or "file": what is at path p.
KindAt(fsx, p) == IF p \in AllPaths THEN fsx[p] ELSE "none"

\* os.listdir(p), unordered.
ListDir(fsx, p) ==
    { x \in Names : Len(p) < MaxPathLen /\ KindAt(fsx, Append(p, x)) # "none" }

\* The order of str comparison on Names.
NameRank(x) == CASE x = "d1" -> 1 [] x = "f1" -> 2 [] OTHER -> 3

\* The order in which the pool hands out its workers.
WorkerRank(w) == IF w = "w1" THEN 1 ELSE 2

\* (Sorted_Reversed is the same list from the last name to the first.)
RECURSIVE Sorted_Reversed(_)
Sorted_Reversed(S) ==
    IF S = {} THEN <<>>
    ELSE LET m == CHOOSE x \in S : \A y \in S : NameRank(x) >= NameRank(y)
         IN <<m>> \o Sorted_Reversed(S \ {m})

RECURSIVE Sorted(_)
Sorted(S) ==
    IF S = {} THEN <<>>
    ELSE LET m == CHOOSE x \in S : \A y \in S : NameRank(x) <= NameRank(y)
         IN <<m>> \o Sorted(S \ {m})

----------------------------------------------------------------------------
(* Results: the (success, output, error) tuple every path returns.  An     *)
(* output is a record of a text tag, a path and a list of lines; an error  *)
(* is a message template with the argument it quotes.                      *)

\* The part of the process listing that is computed: the total it states,
\* the process ids of its rows, whether it ends with the "... and N more
\* processes" note, and the N of the note.
Table(total, rows, note, more) ==
    [total |-> total, rows |-> rows, note |-> note, more |-> more]

NoTable == Table(0, <<>>, FALSE, 0)

Out(tag, path, items) ==
    [tag |-> tag, path |-> path, items |-> items, table |-> NoTable]

NoOut == Out("", <<>>, <<>>)

Err(msg, arg) == [msg |-> msg, arg |-> arg]

NoErr == Err("", "")

Result(success, output, error) ==
    [success |-> success, output |-> output, error |-> error]

\* What a handler returns: its result and the filesystem and working
\* directory it leaves.
Ret(res, fsx, d) == [res |-> res, fs |-> fsx, cwd |-> d]

\* terminal.py ends its outputs with a newline, app.py does not.
Nl(disp, tag) == IF disp = "cli" THEN tag \o "\n" ELSE tag

_handle_pwd(disp, fsx, d) ==
    Ret(Result(TRUE, Out(Nl(disp, "cwd"), d, <<>>), NoErr), fsx, d)

_handle_ls(disp, args, fsx, d) ==
    LET target_dir == IF args # <<>> THEN args[1] ELSE "."
        p == Resolve(d, target_dir)
        items == ListDir(fsx, p)
        lines == [i \in 1..Cardinality(items) |->
                    LET item == Sorted(items)[i] IN
                    IF KindAt(fsx, Append(p, item)) = "dir"
                    THEN <<"dir", item>> ELSE <<"file", item>>]
    IN
    IF KindAt(fsx, p) = "none"
    THEN Ret(Result(FALSE, NoOut, Err("Directory not found", target_dir)), fsx, d)
    ELSE IF KindAt(fsx, p) # "dir"
    THEN Ret(Result(FALSE, NoOut, Err("Not a directory", target_dir)), fsx, d)
    ELSE IF items = {}
    THEN Ret(Result(TRUE, Out(Nl(disp, "Directory is empty"), <<>>, <<>>), NoErr), fsx, d)
    ELSE Ret(Result(TRUE, Out(Nl(disp, "listing"), <<>>, lines), NoErr), fsx, d)

\* The directory os.chdir is asked for: "..", nothing for ".", the home
\* directory for a leading "~", the argument otherwise.
CdTarget(d, target_dir) ==
    CASE target_dir = ".." -> Parent(d)
      [] target_dir = "." -> d
      [] target_dir = "~" -> HomeDir
      [] OTHER -> Resolve(d, target_dir)

_handle_cd_robust(disp, args, fsx, d) ==
    IF args = <<>>
    THEN Ret(Result(FALSE, NoOut,
                    Err("cd: missing directory argument. Usage: cd <directory>", "")),
             fsx, d)
    ELSE
    LET target_dir == args[1]
        p == CdTarget(d, target_dir)
    IN
    IF KindAt(fsx, p) = "none"
    THEN Ret(Result(FALSE, NoOut, Err("cd: no such directory", target_dir)), fsx, d)
    ELSE IF KindAt(fsx, p) = "file"
    THEN Ret(Result(FALSE, NoOut, Err("cd: not a directory", target_dir)), fsx, d)
    ELSE IF disp = "web"
    THEN Ret(Result(TRUE, Out("Changed to", p, <<>>), NoErr), fsx, p)
    ELSE Ret(Result(TRUE, NoOut, NoErr), fsx, p)

\* os.path.split of an argument: a name followed by "/.." has the name as
\* head and ".." as tail, a single component has no head.
PathSplit(name) ==
    CASE name = "d1/.." -> [head |-> "d1", tail |-> ".."]
      [] name = "f1/.." -> [head |-> "f1", tail |-> ".."]
      [] OTHER -> [head |-> "", tail |-> name]

\* os.makedirs(name, exist_ok=False) called in directory d: a head that
\* does not exist is created first, then os.mkdir(name) runs and may raise.
\* The result is the filesystem left and the exception raised ("" if none).
makedirs(fsx, d, name) ==
    LET s == PathSplit(name)
        hp == Resolve(d, s.head)
        make_head == s.head # "" /\ KindAt(fsx, hp) = "none"
        fs1 == IF make_head /\ hp \in AllPaths THEN [fsx EXCEPT ![hp] = "dir"] ELSE fsx
        p == Resolve(d, name)
    IN
    IF s.head = ""
    THEN IF KindAt(fsx, p) # "none" THEN [fs |-> fsx, exc |-> "FileExistsError"]
         ELSE IF p \notin AllPaths THEN [fs |-> fsx, exc |-> "OSError"]
         ELSE [fs |-> [fsx EXCEPT ![p] = "dir"], exc |-> ""]
    ELSE IF make_head /\ hp \notin AllPaths THEN [fs |-> fsx, exc |-> "OSError"]
    ELSE IF KindAt(fs1, hp) = "dir" THEN [fs |-> fs1, exc |-> "FileExistsError"]
    ELSE [fs |-> fs1, exc |-> "OSError"]

_handle_mkdir_robust(disp, args, fsx, d) ==
    IF args = <<>>
    THEN Ret(Result(FALSE, NoOut,
                    Err("mkdir: missing directory name. Usage: mkdir <directory_name>", "")),
             fsx, d)
    ELSE
    LET dir_name == args[1]
        made == makedirs(fsx, d, dir_name)
    IN
    IF made.exc = "FileExistsError"
    THEN Ret(Result(FALSE, NoOut,
                    Err("mkdir: cannot create directory: File exists", dir_name)),
             made.fs, d)
    ELSE IF made.exc = "OSError"
    THEN Ret(Result(FALSE, NoOut,
                    Err("mkdir: cannot create directory: OSError", dir_name)),
             made.fs, d)
    ELSE Ret(Result(TRUE, Out(Nl(disp, "Created directory"), <<dir_name>>, <<>>), NoErr),
             made.fs, d)

\* (_handle_rm_robust_NoDirCheck is the handler without the os.path.isdir
\* test, on a system whose os.remove also removes a directory.)
_handle_rm_robust_NoDirCheck(disp, args, fsx, d) ==
    IF args = <<>>
    THEN Ret(Result(FALSE, NoOut,
                    Err("rm: missing file name. Usage: rm <file_name>", "")), fsx, d)
    ELSE
    LET file_name == args[1]
        p == Resolve(d, file_name)
    IN
    IF KindAt(fsx, p) = "none"
    THEN Ret(Result(FALSE, NoOut, Err("rm: cannot remove: No such file", file_name)),
             fsx, d)
    ELSE Ret(Result(TRUE, Out(Nl(disp, "Removed file"), <<file_name>>, <<>>), NoErr),
             [fsx EXCEPT ![p] = "none"], d)

_handle_rm_robust(disp, args, fsx, d) ==
    IF args = <<>>
    THEN Ret(Result(FALSE, NoOut,
                    Err("rm: missing file name. Usage: rm <file_name>", "")), fsx, d)
    ELSE
    LET file_name == args[1]
        p == Resolve(d, file_name)
    IN
    IF KindAt(fsx, p) = "dir"
    THEN Ret(Result(FALSE, NoOut, Err("rm: cannot remove: Is a directory", file_name)),
             fsx, d)
    ELSE IF KindAt(fsx, p) = "none"
    THEN Ret(Result(FALSE, NoOut, Err("rm: cannot remove: No such file", file_name)),
             fsx, d)
    ELSE Ret(Result(TRUE, Out(Nl(disp, "Removed file"), <<file_name>>, <<>>), NoErr),
             [fsx EXCEPT ![p] = "none"], d)

_handle_cat_robust(disp, args, fsx, d) ==
    IF args = <<>>
    THEN Ret(Result(FALSE, NoOut,
                    Err("cat: missing file name. Usage: cat <file_name>", "")), fsx, d)
    ELSE
    LET file_name == args[1]
        p == Resolve(d, file_name)
    IN
    IF KindAt(fsx, p) = "none"
    THEN Ret(Result(FALSE, NoOut, Err("cat: no such file", file_name)), fsx, d)
    ELSE IF KindAt(fsx, p) # "file"
    THEN Ret(Result(FALSE, NoOut, Err("cat: is not a file", file_name)), fsx, d)
    ELSE Ret(Result(TRUE, Out(Nl(disp, "content"), p, <<>>), NoErr), fsx, d)

\* What psutil.process_iter yields: the processes in the order of the
\* enumeration, each with its pid and with whether reading its entry goes
\* through (ok) or raises NoSuchProcess, AccessDenied or ZombieProcess.
ProcTable(n, skipped, descending) ==
    [i \in 1..n |->
        LET pid == IF descending THEN n + 1 - i ELSE i
        IN [pid |-> pid, ok |-> pid \notin skipped]]

\* The number of rows of the process listing.
ProcessRows == 20

\* processes.sort(key=lambda x: x[0]) on entries with the pids of set S.
RECURSIVE SortPids(_)
SortPids(S) ==
    IF S = {} THEN <<>>
    ELSE LET m == CHOOSE x \in S : \A y \in S : x <= y
         IN <<m>> \o SortPids(S \ {m})

_handle_processes(disp, table, fsx, d) ==
    LET total_count == Len(table)
        processes == SortPids({ table[i].pid : i \in { j \in 1..Len(table) : table[j].ok } })
        rows == SubSeq(processes, 1, IF Len(processes) < ProcessRows
                                     THEN Len(processes) ELSE ProcessRows)
        note == total_count > ProcessRows
    IN Ret(Result(TRUE,
                  [Out(Nl(disp, "processes"), <<>>, <<>>) EXCEPT
                      !.table = Table(total_count, rows, note,
                                      IF note THEN total_count - ProcessRows ELSE 0)],
                  NoErr), fsx, d)

\* cpu, mem/memory, help and tellmeabout_developer read the system and
\* change nothing.
_handle_info(disp, name, fsx, d) ==
    Ret(Result(TRUE, Out(Nl(disp, name), <<>>, <<>>), NoErr), fsx, d)

_handle_clear(fsx, d) ==
    Ret(Result(TRUE, Out("CLEAR_SCREEN", <<>>, <<>>), NoErr), fsx, d)

\* The number of entries the history builtin lists.
HistoryWindow == 20

LastN(s, n) == IF Len(s) <= n THEN s ELSE SubSeq(s, Len(s) - n + 1, Len(s))

\* _handle_history on the list the session's key holds (<<>> when the
\* key is absent).
_handle_history(hist, fsx, d) ==
    IF hist = <<>>
    THEN Ret(Result(TRUE, Out("No commands in history", <<>>, <<>>), NoErr), fsx, d)
    ELSE Ret(Result(TRUE,
                    Out("Command History", <<>>,
                        [i \in 1..Len(LastN(hist, HistoryWindow)) |->
                            LET entry == LastN(hist, HistoryWindow)[i] IN
                            <<IF entry.success THEN "ok" ELSE "failed">>
                                \o entry.command]),
                    NoErr), fsx, d)

\* The builtin handler run_command calls for route `name`.
RunBuiltin(disp, name, args, fsx, d, hist, table) ==
    CASE name = "pwd" -> _handle_pwd(disp, fsx, d)
      [] name = "ls" -> _handle_ls(disp, args, fsx, d)
      [] name = "cd" -> _handle_cd_robust(disp, args, fsx, d)
      [] name = "mkdir" -> _handle_mkdir_robust(disp, args, fsx, d)
      [] name = "rm" -> _handle_rm_robust(disp, args, fsx, d)
      [] name = "cat" -> _handle_cat_robust(disp, args, fsx, d)
      [] name = "clear" -> _handle_clear(fsx, d)
      [] name = "history" -> _handle_history(hist, fsx, d)
      [] name = "processes" -> _handle_processes(disp, table, fsx, d)
      [] OTHER -> _handle_info(disp, name, fsx, d)

----------------------------------------------------------------------------
(* The external process adapter and the translator adapter.  What the      *)
(* shell and the completion service answer is the environment's choice.    *)

\* One run of subprocess.run(command, shell=True, capture_output=True,
\* text=True, timeout=30).  The command line is handed to the shell, so:
\*   found   the system could locate the command word; when it cannot, the
\*           shell itself starts, writes its complaint to the error stream
\*           and exits with status 127;
\*   forked  the shell runs the command in a child process of its own
\*           (FALSE: the shell does the work itself or execs the command).
\* kind is "exit" (an exit status with the two captured streams),
\* "TimeoutExpired", "FileNotFoundError" (the shell executable or the
\* working directory is missing) or "OSError" (another exception).
Outcome(kind, rc, stdout, stderr, found, forked) ==
    [kind |-> kind, rc |-> rc, stdout |-> stdout, stderr |-> stderr,
     found |-> found, forked |-> forked]

ExternalOutcomes ==
    { Outcome("exit", 0, "out", "", TRUE, TRUE),
      Outcome("exit", 0, "out", "warning", TRUE, TRUE),
      Outcome("exit", 127, "", "not found", FALSE, FALSE),
      Outcome("exit", 1, "CLEAR_SCREEN", "", TRUE, FALSE),
      Outcome("TimeoutExpired", 0, "", "", TRUE, FALSE),
      Outcome("TimeoutExpired", 0, "", "", TRUE, TRUE),
      Outcome("FileNotFoundError", 0, "", "", TRUE, FALSE),
      Outcome("OSError", 0, "", "", TRUE, FALSE) }

NoOutcome == Outcome("", 0, "", "", TRUE, FALSE)

\* The processes of the command that are running when subprocess.run
\* returns or raises.  On a timeout subprocess.run kills the process it
\* started, the shell, and waits for it; a child the shell forked is not
\* signalled.
StillRunning(o) ==
    IF o.kind = "TimeoutExpired" /\ o.forked THEN {"child"} ELSE {}

ExternalFailed(o) == o.kind # "exit" \/ o.rc # 0

\* (_handle_external_command_StderrDecides is the adapter with success
\* decided by an empty error stream.)
_handle_external_command_StderrDecides(command, o) ==
    CASE o.kind = "exit" ->
            Result(o.stderr = "", Out(o.stdout, <<>>, <<>>), Err(o.stderr, ""))
      [] o.kind = "TimeoutExpired" ->
            Result(FALSE, NoOut, Err("Command timed out after 30 seconds", ""))
      [] o.kind = "FileNotFoundError" ->
            Result(FALSE, NoOut, Err("command not found", Split(command)[1]))
      [] OTHER ->
            Result(FALSE, NoOut, Err("Error executing external command", ""))

_handle_external_command(command, o) ==
    CASE o.kind = "exit" ->
            Result(o.rc = 0, Out(o.stdout, <<>>, <<>>), Err(o.stderr, ""))
      [] o.kind = "TimeoutExpired" ->
            Result(FALSE, NoOut, Err("Command timed out after 30 seconds", ""))
      [] o.kind = "FileNotFoundError" ->
            Result(FALSE, NoOut, Err("command not found", Split(command)[1]))
      [] OTHER ->
            Result(FALSE, NoOut, Err("Error executing external command", ""))

\* What the completion service answers: a text (kind "content"), or an
\* exception of the client library (kind "error").  interpret_natural_language
\* returns (success, command, error).
interpret_natural_language(ai, answer) ==
    IF ~ai
    THEN [success |-> FALSE, command |-> <<>>,
          error |-> Err("AI features are disabled", "")]
    ELSE IF answer.kind = "error"
    THEN [success |-> FALSE, command |-> <<>>, error |-> Err("AI Error", "")]
    ELSE IF Strip(answer.text) # <<>>
    THEN [success |-> TRUE, command |-> Strip(answer.text), error |-> NoErr]
    ELSE [success |-> FALSE, command |-> <<>>,
          error |-> Err("AI could not generate a valid command.", "")]

Content(text) == [kind |-> "content", text |-> text]

ServiceError == [kind |-> "error", text |-> <<>>]

----------------------------------------------------------------------------
(* Threads.  The web server runs each request on a worker thread; the REPL *)
(* is one thread.  `program` of a behaviour is fixed by which threads its  *)
(* specification lets move.                                                *)

Workers == {"w1", "w2"}

CliThread == "cli"

Threads == Workers \cup {CliThread}

Sessions == {"s1", "s2"}

Disp(w) == IF w = CliThread THEN "cli" ELSE "web"

\* The depth of nested run_command calls at which the interpreter raises
\* RecursionError.
MaxDepth == 2

\* The number of /execute dispatches a behaviour of the web server accepts.
MaxReq == 2

NoResult == Result(FALSE, NoOut, NoErr)

NoResp ==
    [kind |-> "", success |-> FALSE, output |-> NoOut, error |-> NoErr,
     clear |-> FALSE, exit |-> FALSE, has_dir |-> FALSE, current_dir |-> <<>>,
     history |-> <<>>]

\* A thread waiting for its next line or request.
Idle ==
    [pc |-> "idle", endpoint |-> "", sid |-> "", raw |-> <<>>,
     command |-> <<>>, cur |-> <<>>, depth |-> 0, calls |-> <<>>,
     env |-> <<>>, returned |-> FALSE, result |-> NoResult, exc |-> "",
     hist0 |-> <<>>, cwd0 |-> <<>>, outcome |-> NoOutcome, running |-> {},
     procs |-> <<>>,
     resp |-> NoResp]

Call(h, line) == [h |-> h, line |-> line]

\* (GetHistory_Shared is a store that keeps one list for all tokens.)
GetHistory_Shared(hist, sid) ==
    IF DOMAIN hist = {} THEN <<>> ELSE hist[CHOOSE s \in DOMAIN hist : TRUE]

\* command_history.get(session_id, [])
GetHistory(hist, sid) == IF sid \in DOMAIN hist THEN hist[sid] ELSE <<>>

\* The words execute_command and main end the session on.
\* (ExitWords_NoQ is the list without its last word.)
ExitWords_NoQ == { <<"exit">>, <<"quit">> }

ExitWords == { <<"exit">>, <<"quit">>, <<"q">> }

InitFs ==
    [p \in AllPaths |->
        CASE p = <<>> -> "dir"
          [] p = <<"d1">> -> "dir"
          [] p = <<"f1">> -> "file"
          [] OTHER -> "none"]

\* The process runs app.py ("web") or terminal.py ("cli").
Programs == {"web", "cli"}

Init ==
    /\ program \in Programs
    /\ AI_ENABLED \in BOOLEAN
    /\ fs = InitFs
    /\ cwd \in { <<>>, <<"d1">> }
    /\ command_history = << >>
    /\ thr = [w \in Threads |-> Idle]
    /\ sess_dir = [s \in Sessions |-> cwd]
    /\ completed = [s \in Sessions |-> 0]

----------------------------------------------------------------------------
(* Steps shared by the two programs: run_command and _handle_ai_command.   *)

Set(w, rec) == thr' = [thr EXCEPT ![w] = rec]

\* Where a thread goes when the outermost run_command has returned.
AfterRun(w) == IF Disp(w) = "web" THEN "hist_check" ELSE "display"

Returned(t, w, res) ==
    [t EXCEPT !.pc = AfterRun(w), !.returned = TRUE, !.result = res]

\* run_command on a blank line: (False, "", "Empty command").
DispatchEmpty(w) ==
    /\ thr[w].pc = "run"
    /\ Route(Disp(w), thr[w].cur, AI_ENABLED) = "empty"
    /\ Set(w, Returned(thr[w], w, Result(FALSE, NoOut, Err("Empty command", ""))))
    /\ UNCHANGED <<program, AI_ENABLED, fs, cwd, command_history, sess_dir, completed>>

\* run_command calling one of its native handlers; the process listing
\* finds one of the process tables of `tables`.
DispatchBuiltinOn(w, tables) ==
    LET t == thr[w]
        name == Route(Disp(w), t.cur, AI_ENABLED)
    IN
    /\ t.pc = "run"
    /\ name \in Builtins
    /\ \E table \in IF name = "processes" THEN tables ELSE { <<>> } :
          LET r == RunBuiltin(Disp(w), name, Args(t.cur), fs, cwd,
                              GetHistory(command_history, t.sid), table)
          IN
          /\ Set(w, Returned([t EXCEPT !.calls = Append(@, Call(name, t.cur)),
                                       !.procs = table], w, r.res))
          /\ fs' = r.fs
          /\ cwd' = r.cwd
    /\ UNCHANGED <<program, AI_ENABLED, command_history, sess_dir, completed>>

\* The process table of the dispatches that are not about the listing.
FewTables == { ProcTable(2, {}, FALSE) }

DispatchBuiltin(w) == DispatchBuiltinOn(w, FewTables)

\* run_command calling _handle_external_command(command); the shell ends
\* with outcome o.
DispatchExternal(w, o) ==
    LET t == thr[w] IN
    /\ t.pc = "run"
    /\ Route(Disp(w), t.cur, AI_ENABLED) = "external"
    /\ Set(w, Returned([t EXCEPT !.calls = Append(@, Call("external", t.cur)),
                                 !.env = Append(@, IF ExternalFailed(o)
                                                   THEN "external failed"
                                                   ELSE "external ok"),
                                 !.outcome = o,
                                 !.running = StillRunning(o)],
                       w, _handle_external_command(t.cur, o)))
    /\ UNCHANGED <<program, AI_ENABLED, fs, cwd, command_history, sess_dir, completed>>

\* run_command calling _handle_ai_command(command).
DispatchAI(w) ==
    LET t == thr[w] IN
    /\ t.pc = "run"
    /\ Route(Disp(w), t.cur, AI_ENABLED) = "ai"
    /\ Set(w, [t EXCEPT !.pc = "translate",
                        !.calls = Append(@, Call("ai", t.cur))])
    /\ UNCHANGED <<program, AI_ENABLED, fs, cwd, command_history, sess_dir, completed>>

\* _handle_ai_command once the completion service has answered: a failure
\* is returned, a command is handed to run_command again.
Translate(w, answer) ==
    LET t == thr[w]
        r == interpret_natural_language(AI_ENABLED, answer)
    IN
    /\ t.pc = "translate"
    /\ t.depth < MaxDepth
    /\ IF r.success
       THEN Set(w, [t EXCEPT !.pc = "run", !.cur = r.command,
                             !.depth = @ + 1, !.env = Append(@, "translated")])
       ELSE Set(w, Returned([t EXCEPT !.env = Append(@, "translator failed")],
                            w, Result(FALSE, NoOut, r.error)))
    /\ UNCHANGED <<program, AI_ENABLED, fs, cwd, command_history, sess_dir, completed>>

\* Whether the except clause around run_command in execute_command and in
\* main (`except Exception`) catches exception exc.
\* (Catches_Narrow is a clause that names OSError and ValueError only.)
Catches_Narrow(disp, exc) == exc \in {"OSError", "ValueError"}

Catches(disp, exc) == exc \in {"RecursionError", "OSError", "ValueError"}

\* What the handler answers for an exception it caught.
ErrorResp(exc) ==
    [NoResp EXCEPT !.kind = "error", !.success = FALSE,
                   !.error = Err("Server error", exc)]

\* (RecursionLimit_None is an interpreter that sets no limit to the nesting
\* of calls: it never raises RecursionError.)
RecursionLimit_None(w, inside) ==
    /\ FALSE
    /\ UNCHANGED vars

\* The nesting of run_command calls has reached the interpreter's limit.
\* RecursionError is raised inside the try block of
\* interpret_natural_language (inside = TRUE: it is caught there and
\* returned as a translator failure) or in a frame outside it (it
\* propagates to the handler's except clause).
RecursionLimit(w, inside) ==
    LET t == thr[w] IN
    /\ t.pc = "translate"
    /\ t.depth >= MaxDepth
    /\ IF inside
       THEN Set(w, Returned([t EXCEPT !.env = Append(@, "translator failed")],
                            w, Result(FALSE, NoOut, Err("AI Error", ""))))
       ELSE IF Catches(Disp(w), "RecursionError")
       THEN Set(w, [t EXCEPT !.pc = "done", !.exc = "RecursionError",
                             !.resp = ErrorResp("RecursionError")])
       ELSE Set(w, [t EXCEPT !.pc = "crashed", !.exc = "RecursionError"])
    /\ UNCHANGED <<program, AI_ENABLED, fs, cwd, command_history, sess_dir, completed>>

\* The thread goes back for its next request or line.
Finish(w) ==
    /\ thr[w].pc = "done"
    /\ Set(w, Idle)
    /\ UNCHANGED <<program, AI_ENABLED, fs, cwd, command_history, sess_dir, completed>>

----------------------------------------------------------------------------
(* The web server: execute_command, add_to_history, get_history.  A        *)
(* request carries its session token; get_session_id returns it.           *)

RECURSIVE SumOver(_, _)
SumOver(f, S) ==
    IF S = {} THEN 0
    ELSE LET x == CHOOSE y \in S : TRUE IN f[x] + SumOver(f, S \ {x})

\* The /execute dispatches under way.
InFlight == { w \in Workers : thr[w].endpoint = "/execute" /\ thr[w].pc # "done" }

Accepted == SumOver(completed, Sessions) + Cardinality(InFlight)

\* execute_command from the request to the call of run_command.
Receive(w, sid, raw) ==
    LET command == Strip(raw)
        t == [Idle EXCEPT !.endpoint = "/execute", !.sid = sid, !.raw = raw,
                          !.command = command, !.cwd0 = cwd,
                          !.hist0 = GetHistory(command_history, sid)] IN
    /\ program = "web"
    /\ w \in Workers
    /\ thr[w].pc = "idle"
    /\ IF command = <<>>
       THEN Set(w, [t EXCEPT !.pc = "done",
                             !.resp = [NoResp EXCEPT !.kind = "empty",
                                          !.error = Err("Empty command", "")]])
       ELSE IF LowerLine(command) \in ExitWords
       THEN Set(w, [t EXCEPT !.pc = "done",
                             !.resp = [NoResp EXCEPT !.kind = "exit",
                                          !.success = TRUE, !.exit = TRUE,
                                          !.output = Out("Goodbye!", <<>>, <<>>)]])
       ELSE /\ Accepted < MaxReq
            /\ Set(w, [t EXCEPT !.pc = "run", !.cur = command])
    /\ UNCHANGED <<program, AI_ENABLED, fs, cwd, command_history, sess_dir, completed>>

\* add_to_history: `if session_id not in command_history`.
AddHistoryCheck(w) ==
    /\ thr[w].pc = "hist_check"
    /\ Set(w, [thr[w] EXCEPT !.pc = IF thr[w].sid \notin DOMAIN command_history
                                    THEN "hist_create" ELSE "hist_append"])
    /\ UNCHANGED <<program, AI_ENABLED, fs, cwd, command_history, sess_dir, completed>>

\* add_to_history: `command_history[session_id] = []`.
AddHistoryCreate(w) ==
    /\ thr[w].pc = "hist_create"
    /\ command_history' =
          [s \in DOMAIN command_history \cup {thr[w].sid} |->
              IF s = thr[w].sid THEN <<>> ELSE command_history[s]]
    /\ Set(w, [thr[w] EXCEPT !.pc = "hist_append"])
    /\ UNCHANGED <<program, AI_ENABLED, fs, cwd, sess_dir, completed>>

\* The entry add_to_history appends (the timestamp is left out).
HistoryEntry(t) ==
    [command |-> t.command, output |-> t.result.output,
     success |-> t.result.success]

\* add_to_history: `command_history[session_id].append({...})`.
AddHistoryAppend(w) ==
    /\ thr[w].pc = "hist_append"
    /\ command_history' =
          [command_history EXCEPT ![thr[w].sid] = Append(@, HistoryEntry(thr[w]))]
    /\ Set(w, [thr[w] EXCEPT !.pc = "respond"])
    /\ UNCHANGED <<program, AI_ENABLED, fs, cwd, sess_dir, completed>>

\* The JSON execute_command returns after add_to_history.
Response(res, d) ==
    IF res.output = Out("CLEAR_SCREEN", <<>>, <<>>)
    THEN [NoResp EXCEPT !.kind = "clear", !.success = TRUE, !.clear = TRUE]
    ELSE [NoResp EXCEPT !.kind = "result", !.success = res.success,
                        !.output = res.output, !.error = res.error,
                        !.has_dir = TRUE, !.current_dir = d]

Respond(w) ==
    LET resp == Response(thr[w].result, cwd) IN
    /\ thr[w].pc = "respond"
    /\ Set(w, [thr[w] EXCEPT !.pc = "done", !.resp = resp])
    /\ sess_dir' = IF resp.has_dir
                   THEN [sess_dir EXCEPT ![thr[w].sid] = resp.current_dir]
                   ELSE sess_dir
    /\ completed' = [completed EXCEPT ![thr[w].sid] = @ + 1]
    /\ UNCHANGED <<program, AI_ENABLED, fs, cwd, command_history>>

\* get_history: the /history endpoint.
get_history(w, sid) ==
    /\ program = "web"
    /\ w \in Workers
    /\ thr[w].pc = "idle"
    /\ Set(w, [Idle EXCEPT !.pc = "done", !.endpoint = "/history", !.sid = sid,
                           !.resp = [NoResp EXCEPT !.kind = "history",
                                        !.history = GetHistory(command_history, sid)]])
    /\ UNCHANGED <<program, AI_ENABLED, fs, cwd, command_history, sess_dir, completed>>

----------------------------------------------------------------------------
(* The REPL: main of terminal.py.                                          *)

\* One pass of the loop from input() to the call of run_command.
Input(raw) ==
    LET w == CliThread
        t == [Idle EXCEPT !.endpoint = "repl", !.raw = raw, !.command = raw,
                          !.cwd0 = cwd] IN
    /\ program = "cli"
    /\ thr[w].pc = "idle"
    /\ IF raw = <<>>
       THEN Set(w, [t EXCEPT !.pc = "done", !.resp = [NoResp EXCEPT !.kind = "skip"]])
       ELSE IF LowerLine(raw) \in ExitWords
       THEN Set(w, [t EXCEPT !.pc = "exited",
                             !.resp = [NoResp EXCEPT !.kind = "exit", !.exit = TRUE]])
       ELSE IF LowerLine(raw) = <<"clear">>
       THEN Set(w, [t EXCEPT !.pc = "done",
                             !.resp = [NoResp EXCEPT !.kind = "clear", !.clear = TRUE]])
       ELSE Set(w, [t EXCEPT !.pc = "run", !.cur = raw])
    /\ UNCHANGED <<program, AI_ENABLED, fs, cwd, command_history, sess_dir, completed>>

\* input() raises EOFError: the loop ends.
Eof ==
    /\ program = "cli"
    /\ thr[CliThread].pc = "idle"
    /\ Set(CliThread, [Idle EXCEPT !.pc = "exited", !.endpoint = "repl",
                                    !.exc = "EOFError"])
    /\ UNCHANGED <<program, AI_ENABLED, fs, cwd, command_history, sess_dir, completed>>

\* The user presses Ctrl-C while the line is processed: main prints a hint
\* and continues.
KeyboardInterrupt ==
    /\ thr[CliThread].pc \in {"run", "translate", "display"}
    /\ Set(CliThread, [thr[CliThread] EXCEPT !.pc = "done",
                          !.exc = "KeyboardInterrupt",
                          !.resp = [NoResp EXCEPT !.kind = "interrupted"]])
    /\ UNCHANGED <<program, AI_ENABLED, fs, cwd, command_history, sess_dir, completed>>

\* main prints the result of run_command.
Display ==
    LET t == thr[CliThread] IN
    /\ t.pc = "display"
    /\ Set(CliThread,
           [t EXCEPT !.pc = "done",
                     !.resp = [NoResp EXCEPT !.kind = "result",
                                  !.success = t.result.success,
                                  !.output = t.result.output,
                                  !.error = t.result.error]])
    /\ UNCHANGED <<program, AI_ENABLED, fs, cwd, command_history, sess_dir, completed>>

----------------------------------------------------------------------------
(* Inputs.                                                                 *)

\* Lines for the classification: every word as the command word, with up
\* to three arguments, blanks around and between the words.
ArgWords == {"d1", "me", ".."}

LongCmdWords == ReservedWords \cup {"history", "History", "LS", "touch", "show"}

ClassLines ==
    { <<c>> : c \in Words }
    \cup { <<c, SP, a>> : c \in Words, a \in ArgWords }
    \cup { <<c, SP, a, SP, b>> : c \in LongCmdWords, a \in {"show", "d1"},
                                  b \in {"me", "d1"} }
    \cup { <<c, SP, "d1", SP, "show", SP, "me">> : c \in {"cat", "touch"} }
    \cup { <<>>, <<SP>>, <<SP, "pwd">>, <<"exit", SP>>, <<SP, "clear">>,
           <<"Clear", SP>>, <<"show", SP, SP, "me">>, <<"SHOW", SP, "me">>,
           <<"ls", SP, SP, "d1", SP>> }

\* What the completion service may answer in the classification.
ClassAnswers ==
    { Content(<<"pwd">>), Content(<<SP, "ls", SP, "d1">>),
      Content(<<"touch", SP, "f1">>), Content(<<"touch", SP, "d1", SP, "f1">>),
      Content(<<"show", SP, "me">>), Content(<<"history">>),
      Content(<<SP>>), ServiceError }

\* Lines, answers and process outcomes of the sessions of the web server.
WebLines ==
    { <<"pwd">>, <<"cd", SP, "..">>, <<"cd", SP, "d1">>, <<"show", SP, "me">>,
      <<SP, "history">>, <<"exit">>, <<SP>> }

WebAnswers ==
    { Content(<<"cd", SP, "d1">>), Content(<<"show", SP, "me">>), ServiceError }

WebOutcomes == { o \in ExternalOutcomes : o.kind = "exit" /\ o.stderr # "" }

\* Lines and answers of the requests that are served concurrently.
RaceLines == { <<"pwd">>, <<"show", SP, "me">> }

RaceAnswers == { Content(<<"show", SP, "me">>), ServiceError }

----------------------------------------------------------------------------
(* Specifications.                                                         *)

\* The steps of a request once a worker holds it.
Serve(w, answers, outcomes) ==
    \/ DispatchBuiltin(w)
    \/ \E o \in outcomes : DispatchExternal(w, o)
    \/ DispatchAI(w)
    \/ \E answer \in answers : Translate(w, answer)
    \/ \E inside \in BOOLEAN : RecursionLimit(w, inside)
    \/ AddHistoryCheck(w)
    \/ AddHistoryCreate(w)
    \/ AddHistoryAppend(w)
    \/ Respond(w)
    \/ Finish(w)

\* The pool hands a request to its first free worker.
FirstFree(w) == \A v \in Workers : thr[v].pc = "idle" => WorkerRank(v) >= WorkerRank(w)

WebInit == Init /\ program = "web"

\* The web server with its workers running concurrently, whatever the
\* session tokens of their requests.
Next ==
    \E w \in Workers :
        \/ \E sid \in Sessions, raw \in RaceLines :
              FirstFree(w) /\ Receive(w, sid, raw)
        \/ \E sid \in Sessions : FirstFree(w) /\ get_history(w, sid)
        \/ Serve(w, RaceAnswers, WebOutcomes)

Spec == WebInit /\ [][Next]_vars

\* No request of session sid is being served.
SessionFree(sid) == \A w \in Workers : thr[w].pc = "idle" \/ thr[w].sid # sid

\* The web server when each session sends its next request after the
\* answer to its previous one; different sessions are served concurrently.
SeqNext ==
    \E w \in Workers :
        \/ \E sid \in Sessions, raw \in WebLines :
              FirstFree(w) /\ SessionFree(sid) /\ Receive(w, sid, raw)
        \/ \E sid \in Sessions :
              FirstFree(w) /\ SessionFree(sid) /\ get_history(w, sid)
        \/ Serve(w, WebAnswers, WebOutcomes)

SeqSpec == WebInit /\ [][SeqNext]_vars

\* One dispatch at a time of every line of ClassLines: the first dispatch
\* of a fresh web server, and the REPL.
ClassNext ==
    \/ \E sid \in Sessions, raw \in ClassLines :
          /\ DOMAIN command_history = {}
          /\ Receive("w1", sid, raw)
    \/ Serve("w1", ClassAnswers, ExternalOutcomes)
    \/ \E raw \in ClassLines : Input(raw)
    \/ Eof
    \/ KeyboardInterrupt
    \/ DispatchEmpty(CliThread)
    \/ DispatchBuiltin(CliThread)
    \/ \E o \in ExternalOutcomes : DispatchExternal(CliThread, o)
    \/ DispatchAI(CliThread)
    \/ \E answer \in ClassAnswers : Translate(CliThread, answer)
    \/ \E inside \in BOOLEAN : RecursionLimit(CliThread, inside)
    \/ Display
    \/ Finish(CliThread)

ClassSpec == Init /\ [][ClassNext]_vars

----------------------------------------------------------------------------
(* Properties of the classification (ClassSpec).                           *)

\* The tokens and the command word of the line thread w handed to the
\* outermost run_command.
Parts(w) == Split(Strip(thr[w].command))

CmdWord(w) == Lower(Parts(w)[1])

\* run_command has made its first call for the line of thread w.
Dispatched(w) == thr[w].calls # <<>>

\* run_command has made its first call or has returned.
Acted(w) == thr[w].calls # <<>> \/ thr[w].returned

Handlers(w) == { thr[w].calls[i].h : i \in 1..Len(thr[w].calls) }

AiCalls(w) == Cardinality({ i \in 1..Len(thr[w].calls) : thr[w].calls[i].h = "ai" })

\* The line would be handed to the translator were the adapter enabled.
WouldTranslate(w) ==
    /\ Parts(w) # <<>>
    /\ \/ PhraseTest(thr[w].command)
       \/ Len(Parts(w)) > 2 /\ CmdWord(w) \notin ReservedWords

\* C1: for a line whose lower-cased first token is a reserved word, with at
\* most 2 tokens and no natural-language phrase, run_command calls neither
\* the translator nor the external process adapter, in the REPL and in the
\* web server, whether the translator is enabled or not.
C1_BuiltinLineStaysNative ==
    \A w \in Threads :
        ( /\ Parts(w) # <<>>
          /\ CmdWord(w) \in ReservedWords
          /\ Len(Parts(w)) <= 2
          /\ ~PhraseTest(thr[w].command) )
        => Handlers(w) \cap {"ai", "external"} = {}

\* C2: with the translator enabled, a line that contains a phrase is handed
\* to the translator by the first call run_command makes, whatever its
\* token count and also when its command word is a reserved word.
C2_PhraseGoesToTranslator ==
    \A w \in Threads :
        (AI_ENABLED /\ PhraseTest(thr[w].command) /\ Acted(w))
        => /\ Dispatched(w)
           /\ thr[w].calls[1] = Call("ai", thr[w].command)

\* C2 witness: a phrase line that starts with a reserved word was handed to
\* the translator and its dispatch has ended.
C2_Witness ==
    \E w \in Threads :
        /\ AI_ENABLED
        /\ thr[w].pc = "done"
        /\ PhraseTest(thr[w].command)
        /\ CmdWord(w) \in ReservedWords
        /\ Dispatched(w)
        /\ thr[w].calls[1].h = "ai"

\* C3: with the translator enabled, a line of more than 2 tokens without a
\* phrase goes to the translator if and only if its command word has no
\* builtin handler; a command word the if/elif chain handles goes to that
\* handler.
C3_LongLineTranslatedIffNoHandler ==
    \A w \in Threads :
        ( /\ AI_ENABLED
          /\ Len(Parts(w)) > 2
          /\ ~PhraseTest(thr[w].command)
          /\ Dispatched(w) )
        => thr[w].calls[1].h = ChainHandler(Disp(w), CmdWord(w))
           \/ ( /\ thr[w].calls[1].h = "ai"
                /\ ChainHandler(Disp(w), CmdWord(w)) = "external" )

\* C4 as stated: with the translator disabled, every line that would have
\* gone to the translator goes to the external process adapter with the
\* full line.
C4_DisabledFallsToExternal ==
    \A w \in Threads :
        (~AI_ENABLED /\ WouldTranslate(w) /\ Dispatched(w))
        => thr[w].calls = <<Call("external", thr[w].command)>>

\* C4 amended: with the translator disabled no dispatch calls the
\* translator, and a line that would have gone to the translator is handled
\* by the one call run_command makes with the full line: the builtin
\* handler of its command word when the if/elif chain has one, the
\* external process adapter otherwise.
C4_DisabledFallsThrough ==
    \A w \in Threads :
        ~AI_ENABLED =>
            /\ "ai" \notin Handlers(w)
            /\ (WouldTranslate(w) /\ Acted(w))
               => thr[w].calls =
                     <<Call(ChainHandler(Disp(w), CmdWord(w)), thr[w].command)>>

\* C4 witness: with the translator disabled, a phrase line went to the
\* external process adapter and its dispatch has ended.
C4_Witness ==
    \E w \in Threads :
        /\ ~AI_ENABLED
        /\ thr[w].pc = "done"
        /\ PhraseTest(thr[w].command)
        /\ thr[w].calls = <<Call("external", thr[w].command)>>

\* C5: one outermost dispatch calls the translator at most once.
C5_TranslatorCalledAtMostOnce == \A w \in Threads : AiCalls(w) <= 1

----------------------------------------------------------------------------
(* Properties of the history ledger and of the working directory of the    *)
(* web server (SeqSpec, Spec).                                             *)

IsPrefix(s, t) == Len(s) <= Len(t) /\ SubSeq(t, 1, Len(s)) = s

\* C6: an /execute dispatch of a non-empty, non-exit line that ran to its
\* response leaves the session's history equal to the history it found
\* followed by exactly one entry, whose command is the input line as it was
\* received and whose success flag is the one run_command returned; the
\* re-dispatch of a translated line appends nothing.
C6_OneEntryPerDispatch ==
    \A w \in Workers :
        ( /\ thr[w].endpoint = "/execute"
          /\ thr[w].pc = "done"
          /\ thr[w].resp.kind \in {"result", "clear"} )
        => LET h == GetHistory(command_history, thr[w].sid) IN
           /\ Len(h) = Len(thr[w].hist0) + 1
           /\ SubSeq(h, 1, Len(h) - 1) = thr[w].hist0
           /\ h[Len(h)].command = thr[w].raw
           /\ h[Len(h)].success = thr[w].result.success

\* C7: every step of the server leaves each session's history with its
\* previous history as a prefix: no entry is removed, reordered or changed.
C7_HistoryAppendOnly ==
    [][\A s \in Sessions :
          IsPrefix(GetHistory(command_history, s), GetHistory(command_history', s))]_vars

\* C8: the directory reported to a session, and the directory its pwd
\* prints, is the session's own directory (the start directory, then what
\* its own responses reported) unless the dispatch itself changed directory;
\* another session's cd does not move it.
C8_SessionKeepsItsDirectory ==
    [][\A w \in Workers :
          ( /\ thr[w].pc = "respond"
            /\ thr'[w].pc = "done"
            /\ thr'[w].resp.has_dir
            /\ "cd" \notin Handlers(w) )
          => /\ thr'[w].resp.current_dir = sess_dir[thr[w].sid]
             /\ ("pwd" \in Handlers(w)
                    => thr[w].result.output.path = sess_dir[thr[w].sid])]_vars

\* C9: when no /execute dispatch of a session is under way, the session's
\* history holds one entry for each of its completed dispatches.
C9_NoHistoryEntryLost ==
    \A s \in Sessions :
        (\A w \in Workers :
            (thr[w].endpoint = "/execute" /\ thr[w].sid = s) => thr[w].pc = "done")
        => Len(GetHistory(command_history, s)) = completed[s]

----------------------------------------------------------------------------
(* Failures (ClassSpec).                                                   *)

\* The last thing the environment did to the dispatch of thread w.
LastEnv(w) == IF thr[w].env = <<>> THEN "" ELSE thr[w].env[Len(thr[w].env)]

LastHandler(w) ==
    IF thr[w].calls = <<>> THEN "" ELSE thr[w].calls[Len(thr[w].calls)].h

----------------------------------------------------------------------------
(* Lines that are not dispatched (ClassSpec).                              *)

\* The line is empty after trimming, or is exit, quit or q in any case.
NotDispatchedLine(raw) ==
    \/ Strip(raw) = <<>>
    \/ LowerLine(raw) \in { <<"exit">>, <<"quit">>, <<"q">> }

\* Thread w has taken a line and no exception ended its processing.
Taken(w) == thr[w].pc # "idle" /\ thr[w].endpoint # "/history" /\ thr[w].exc = ""

Ended(w) == thr[w].pc \in {"done", "exited"}

\* What a line that is not dispatched leaves alone: no handler is called,
\* the session's history and the working directory are as they were.
C11_Frame(w) ==
    /\ thr[w].calls = <<>>
    /\ GetHistory(command_history, thr[w].sid) = thr[w].hist0
    /\ cwd = thr[w].cwd0

\* C11 as stated: a line that is empty after trimming, or is exit, quit or q
\* in any letter case, calls no handler, appends no history entry and leaves
\* the working directory unchanged; the empty line ends with a failure
\* result "Empty command", and exit, quit and q end with the exit signal.
C11_UndispatchedLine ==
    \A w \in Threads :
        (Taken(w) /\ NotDispatchedLine(thr[w].raw))
        => /\ C11_Frame(w)
           /\ Ended(w) =>
                 IF Strip(thr[w].raw) = <<>>
                 THEN /\ ~thr[w].resp.success
                      /\ thr[w].resp.error = Err("Empty command", "")
                      /\ ~thr[w].resp.exit
                 ELSE thr[w].resp.exit

\* C11 amended: the same, except that the REPL skips a line of zero
\* characters without any result; a line of blanks only ends in the REPL
\* with the failure result "Empty command" of run_command.
C11_UndispatchedLineOrSkip ==
    \A w \in Threads :
        (Taken(w) /\ NotDispatchedLine(thr[w].raw))
        => /\ C11_Frame(w)
           /\ Ended(w) =>
                 IF thr[w].raw = <<>> /\ Disp(w) = "cli"
                 THEN /\ thr[w].resp.kind = "skip"
                      /\ thr[w].resp.error = NoErr
                      /\ ~thr[w].returned
                 ELSE IF Strip(thr[w].raw) = <<>>
                 THEN /\ ~thr[w].resp.success
                      /\ thr[w].resp.error = Err("Empty command", "")
                      /\ ~thr[w].resp.exit
                 ELSE thr[w].resp.exit

\* C11 witness: the REPL has answered a line of blanks with "Empty command".
C11_Witness ==
    \E w \in Threads :
        /\ Disp(w) = "cli"
        /\ thr[w].pc = "done"
        /\ thr[w].raw # <<>>
        /\ Strip(thr[w].raw) = <<>>
        /\ thr[w].resp.error = Err("Empty command", "")

----------------------------------------------------------------------------
(* The clear-screen signal of the web response (ClassSpec).                *)

\* C12: the response to an /execute dispatch carries clear = true if and
\* only if the line was resolved to the clear builtin; for every other
\* handler the success flag and the error text of the response are those
\* run_command returned.
C12_ClearSignalOnlyForClear ==
    \A w \in Workers :
        (thr[w].endpoint = "/execute" /\ thr[w].pc = "done" /\ thr[w].returned)
        => /\ thr[w].resp.clear <=> LastHandler(w) = "clear"
           /\ LastHandler(w) # "clear"
              => /\ thr[w].resp.success = thr[w].result.success
                 /\ thr[w].resp.error = thr[w].result.error

----------------------------------------------------------------------------
(* The filesystem builtins, one dispatch after another: the REPL, and one  *)
(* session of the web server.                                              *)

BuiltinArgs == {"d1", "f1", "..", ".", "~"}

BuiltinLines ==
    { <<c>> : c \in {"pwd", "ls", "cd", "mkdir", "rm", "cat"} }
    \cup { <<c, SP, a>> : c \in {"ls", "cd", "mkdir", "rm", "cat"}, a \in BuiltinArgs }
    \cup { <<"mkdir", SP, a>> : a \in {"d1/..", "f1/.."} }

BuiltinInit == Init /\ ~AI_ENABLED

BuiltinNext ==
    \/ \E raw \in BuiltinLines : Receive("w1", "s1", raw)
    \/ DispatchBuiltin("w1")
    \/ AddHistoryCheck("w1")
    \/ AddHistoryCreate("w1")
    \/ AddHistoryAppend("w1")
    \/ Respond("w1")
    \/ Finish("w1")
    \/ \E raw \in BuiltinLines : Input(raw)
    \/ DispatchBuiltin(CliThread)
    \/ Display
    \/ Finish(CliThread)

BuiltinSpec == BuiltinInit /\ [][BuiltinNext]_vars

\* The step in which run_command of thread w calls builtin `name`.
BuiltinStep(w, name) ==
    /\ thr[w].pc = "run"
    /\ thr'[w].returned
    /\ thr'[w].calls = Append(thr[w].calls, Call(name, thr[w].cur))

----------------------------------------------------------------------------
(* mkdir, rm, cd and ls (BuiltinSpec).                                     *)

\* The first argument of the line thread w dispatches.
Arg1(w) == Args(thr[w].cur)[1]

HasArg(w) == Args(thr[w].cur) # <<>>

\* C13: mkdir <name> with nothing at <name> (and a volume that can hold it)
\* succeeds, creates the directory and names it in its output; with
\* something at <name> it fails and changes nothing, and its message for a
\* target that is a directory differs from the message it gives for a
\* target that is a file.
C13_MkdirCreatesOrTellsWhy ==
    [][\A w \in Threads :
          (BuiltinStep(w, "mkdir") /\ HasArg(w))
          => LET p == Resolve(cwd, Arg1(w))
                 res == thr'[w].result
             IN
             /\ (KindAt(fs, p) = "none" /\ p \in AllPaths)
                => /\ res.success
                   /\ fs' = [fs EXCEPT ![p] = "dir"]
                   /\ res.output.path = <<Arg1(w)>>
             /\ KindAt(fs, p) # "none"
                => /\ ~res.success
                   /\ fs' = fs
                   /\ KindAt(fs, p) = "dir"
                      => \A b \in Names :
                            KindAt(fs, Resolve(cwd, b)) = "file"
                            => res.error.msg #
                               _handle_mkdir_robust(Disp(w), <<b>>, fs, cwd).res.error.msg]_vars

\* C14: rm on a path that is a directory fails with the is-a-directory
\* message and leaves the filesystem as it was; an rm step changes the
\* filesystem only when its path is an existing file, and then removes
\* exactly that entry.
C14_RmNeverRemovesDirectory ==
    [][\A w \in Threads :
          BuiltinStep(w, "rm")
          => /\ fs' # fs => HasArg(w)
             /\ HasArg(w)
                => LET p == Resolve(cwd, Arg1(w))
                       res == thr'[w].result
                   IN
                   /\ KindAt(fs, p) = "dir"
                      => /\ ~res.success
                         /\ res.error = Err("rm: cannot remove: Is a directory", Arg1(w))
                         /\ fs' = fs
                   /\ fs' # fs
                      => /\ KindAt(fs, p) = "file"
                         /\ fs' = [fs EXCEPT ![p] = "none"]]_vars

\* C14 witness: after a file was removed, rm has refused a directory.
C14_Witness ==
    \E w \in Threads :
        /\ thr[w].returned
        /\ LastHandler(w) = "rm"
        /\ thr[w].result.error.msg = "rm: cannot remove: Is a directory"
        /\ fs[<<"d1">>] = "dir"
        /\ fs[<<"f1">>] = "none"

\* C15: a successful cd names the new working directory in its output, and
\* that directory is the parent of the previous one for `cd ..`, the
\* previous one for `cd .`, and the resolved target otherwise (the home
\* directory for `~`); pwd returns the working directory.
C15_CdReportsNewDirectory ==
    [][\A w \in Threads :
          /\ (BuiltinStep(w, "cd") /\ thr'[w].result.success)
             => /\ HasArg(w)
                /\ thr'[w].result.output # NoOut
                /\ thr'[w].result.output.path = cwd'
                /\ cwd' = CASE Arg1(w) = ".." -> Parent(cwd)
                            [] Arg1(w) = "." -> cwd
                            [] Arg1(w) = "~" -> HomeDir
                            [] OTHER -> Resolve(cwd, Arg1(w))
          /\ BuiltinStep(w, "pwd")
             => /\ thr'[w].result.success
                /\ thr'[w].result.output.path = cwd]_vars

----------------------------------------------------------------------------
(* The external process adapter (ClassSpec).                               *)

\* run_command of thread w has returned what _handle_external_command
\* made of the last run of the shell.
ExternalReturned(w) == thr[w].returned /\ LastHandler(w) = "external"

\* C16: when the process ends with an exit status, the adapter's success
\* flag is true exactly when the status is 0, whatever the error stream
\* holds; the output is the captured standard output and the error message
\* is the captured standard error.
C16_SuccessIffExitStatusZero ==
    \A w \in Threads :
        (ExternalReturned(w) /\ thr[w].outcome.kind = "exit")
        => /\ thr[w].result.success <=> thr[w].outcome.rc = 0
           /\ thr[w].result.output = Out(thr[w].outcome.stdout, <<>>, <<>>)
           /\ thr[w].result.error = Err(thr[w].outcome.stderr, "")

\* C16 witness: a success result that carries an error message.
C16_Witness ==
    \E w \in Threads :
        /\ ExternalReturned(w)
        /\ thr[w].outcome.kind = "exit"
        /\ thr[w].result.success
        /\ thr[w].result.error.msg # ""

\* C17: when the command ran into the timeout, the adapter returns the
\* timeout failure and no process of the command is running any more.
C17_TimeoutLeavesNoProcess ==
    \A w \in Threads :
        (ExternalReturned(w) /\ thr[w].outcome.kind = "TimeoutExpired")
        => /\ thr[w].result =
                 Result(FALSE, NoOut, Err("Command timed out after 30 seconds", ""))
           /\ thr[w].running = {}

\* C18: when the system cannot locate the command word, the adapter returns
\* the failure "command not found: <word>".
C18_CommandNotFoundIsDistinguished ==
    \A w \in Threads :
        (ExternalReturned(w) /\ ~thr[w].outcome.found)
        => thr[w].result =
              Result(FALSE, NoOut,
                     Err("command not found", Split(thr[w].cur)[1]))

----------------------------------------------------------------------------
(* The process listing: one dispatch of ps or processes on every process   *)
(* table of ProcTables, in the REPL and on a fresh web server.             *)

\* The largest number of processes of a table.
MaxProcs == 22

\* Tables of 0..MaxProcs processes, enumerated in ascending or descending
\* order of pid, in which the processes of pids 1 and 2 may be skipped.
ProcTables ==
    { ProcTable(n, skipped, descending) :
        n \in 0..MaxProcs, skipped \in SUBSET {1, 2}, descending \in BOOLEAN }

ProcLines == { <<"ps">>, <<"processes">> }

ProcNext ==
    \/ \E raw \in ProcLines :
          /\ DOMAIN command_history = {}
          /\ Receive("w1", "s1", raw)
    \/ DispatchBuiltinOn("w1", ProcTables)
    \/ AddHistoryCheck("w1")
    \/ AddHistoryCreate("w1")
    \/ AddHistoryAppend("w1")
    \/ Respond("w1")
    \/ Finish("w1")
    \/ \E raw \in ProcLines : Input(raw)
    \/ DispatchBuiltinOn(CliThread, ProcTables)
    \/ Display
    \/ Finish(CliThread)

ProcSpec == Init /\ [][ProcNext]_vars

\* The pids of the processes of a table whose entry can be read.
Listable(table) == { table[i].pid : i \in { j \in 1..Len(table) : table[j].ok } }

\* C19: the listing states as total the number of processes enumerated,
\* has at most 20 rows, of listable processes in ascending order of pid,
\* and has the "and N more" note exactly when a listable process has no
\* row, with N the number of listable processes without a row.
C19_ProcessListingCounts ==
    \A w \in Threads :
        (thr[w].returned /\ LastHandler(w) = "processes")
        => LET t == thr[w].result.output.table
               listable == Listable(thr[w].procs)
           IN
           /\ thr[w].result.success
           /\ t.total = Len(thr[w].procs)
           /\ Len(t.rows) <= 20
           /\ \A i \in 1..Len(t.rows) : t.rows[i] \in listable
           /\ \A i, j \in 1..Len(t.rows) : i < j => t.rows[i] < t.rows[j]
           /\ t.note <=> Cardinality(listable) > Len(t.rows)
           /\ t.note => t.more = Cardinality(listable) - Len(t.rows)

\* C20: ls of an existing directory (the working directory when it has
\* no argument) succeeds; for a directory with entries its output has
\* exactly one line per entry, in ascending order of name, each marked
\* "dir" or "file" as the entry is; for an empty directory its output is
\* the message "Directory is empty" and never the empty output; ls of a
\* path that does not exist or is not a directory fails.
C20_LsListsSortedEntries ==
    [][\A w \in Threads :
          BuiltinStep(w, "ls")
          => LET p == IF HasArg(w) THEN Resolve(cwd, Arg1(w)) ELSE cwd
                 res == thr'[w].result
                 lines == res.output.items
                 entries == ListDir(fs, p)
             IN
             /\ KindAt(fs, p) = "dir"
                => /\ res.success
                   /\ res.output # NoOut
                   /\ entries = {}
                      => /\ res.output.tag = Nl(Disp(w), "Directory is empty")
                         /\ lines = <<>>
                   /\ entries # {}
                      => /\ Len(lines) = Cardinality(entries)
                         /\ { lines[i][2] : i \in 1..Len(lines) } = entries
                         /\ \A i, j \in 1..Len(lines) :
                               i < j => NameRank(lines[i][2]) < NameRank(lines[j][2])
                         /\ \A i \in 1..Len(lines) :
                               lines[i][1] =
                                  IF KindAt(fs, Append(p, lines[i][2])) = "dir"
                                  THEN "dir" ELSE "file"
             /\ KindAt(fs, p) # "dir" => ~res.success]_vars

\* ls has listed a directory of two entries, a directory and a file.
C20_Witness ==
    \E w \in Threads :
        /\ thr[w].returned
        /\ LastHandler(w) = "ls"
        /\ thr[w].result.success
        /\ Len(thr[w].result.output.items) = 2
        /\ thr[w].result.output.items[1][1] # thr[w].result.output.items[2][1]

----------------------------------------------------------------------------
(* Usage errors and the frame of a failing builtin (BuiltinSpec).          *)

\* The usage string of each builtin that requires an argument.
Usage(name) ==
    CASE name = "cd" -> "cd: missing directory argument. Usage: cd <directory>"
      [] name = "mkdir" -> "mkdir: missing directory name. Usage: mkdir <directory_name>"
      [] name = "rm" -> "rm: missing file name. Usage: rm <file_name>"
      [] name = "cat" -> "cat: missing file name. Usage: cat <file_name>"

\* C21: cd, mkdir, rm and cat called without an argument fail with their
\* usage string as the message, and every builtin call that fails leaves
\* the working directory and the filesystem as they were before the call.
C21_FailingBuiltinChangesNothing ==
    [][\A w \in Threads :
          \A name \in {"pwd", "ls", "cd", "mkdir", "rm", "cat"} :
             BuiltinStep(w, name)
             => /\ (name \in {"cd", "mkdir", "rm", "cat"} /\ ~HasArg(w))
                   => /\ ~thr'[w].result.success
                      /\ thr'[w].result.error = Err(Usage(name), "")
                /\ ~thr'[w].result.success => (fs' = fs /\ cwd' = cwd)]_vars

----------------------------------------------------------------------------
(* The history builtin and the /history endpoint.                          *)

Min(a, b) == IF a < b THEN a ELSE b

\* The line of the history listing for an entry: its success mark and its
\* command.
Listed(entry) == <<IF entry.success THEN "ok" ELSE "failed">> \o entry.command

\* The step in which worker w answers GET /history.
HistoryStep(w) ==
    /\ thr[w].pc = "idle"
    /\ thr'[w].pc = "done"
    /\ thr'[w].endpoint = "/history"

\* C22: the history builtin of a session with n completed dispatches
\* succeeds and lists the last min(n, 20) entries of the session, oldest
\* first, each with its mark and command, and says "No commands in history"
\* when n = 0; GET /history returns the entries of all n dispatches.
\* (Entries of dispatches still under way may be listed as well.)
C22_HistoryListsCompletedDispatches ==
    [][\A w \in Workers :
          /\ BuiltinStep(w, "history")
             => LET n == completed[thr[w].sid]
                    hist == GetHistory(command_history, thr[w].sid)
                    shown == LastN(hist, 20)
                    lines == thr'[w].result.output.items
                IN
                /\ thr'[w].result.success
                /\ hist = <<>> => thr'[w].result.output.tag = "No commands in history"
                /\ Len(lines) >= Min(n, 20)
                /\ Len(lines) = Len(shown)
                /\ \A i \in 1..Len(lines) : lines[i] = Listed(shown[i])
          /\ HistoryStep(w)
             => /\ Len(thr'[w].resp.history) >= completed[thr'[w].sid]
                /\ thr'[w].resp.history = GetHistory(command_history, thr'[w].sid)]_vars

----------------------------------------------------------------------------
(* Termination of a dispatch: the chain line -> translator -> run_command, *)
(* with a translator that always answers and handlers that return.         *)

TermLines ==
    { <<"pwd">>, <<"show", SP, "me">>, <<"touch", SP, "f1">>,
      <<"touch", SP, "d1", SP, "f1">> }

\* The answers of the completion service: a line the translator is called
\* for again, a builtin, an external command, a blank text, a failure.
TermAnswers ==
    { Content(<<"show", SP, "me">>), Content(<<"pwd">>),
      Content(<<"touch", SP, "f1">>), Content(<<SP>>), ServiceError }

\* The steps of run_command and of its caller for the line thread w holds.
TermStep(w) ==
    \/ DispatchBuiltin(w)
    \/ \E o \in ExternalOutcomes : DispatchExternal(w, o)
    \/ DispatchAI(w)
    \/ \E answer \in TermAnswers : Translate(w, answer)
    \/ \E inside \in BOOLEAN : RecursionLimit(w, inside)
    \/ AddHistoryCheck(w)
    \/ AddHistoryCreate(w)
    \/ AddHistoryAppend(w)
    \/ Respond(w)
    \/ Finish(w)

TermNext ==
    \/ \E raw \in TermLines : Receive("w1", "s1", raw)
    \/ TermStep("w1")
    \/ \E raw \in TermLines : Input(raw)
    \/ TermStep(CliThread)
    \/ Display

\* A thread that holds a line keeps running: the translator answers, the
\* builtins and the external processes return.
TermSpec ==
    /\ Init
    /\ [][TermNext]_vars
    /\ WF_vars(TermStep("w1"))
    /\ WF_vars(TermStep(CliThread) \/ Display)

\* run_command has ended for thread w: it has returned its result, or the
\* interpreter has ended the nesting with RecursionError and the caller has
\* answered it.
Ended23(w) ==
    \/ thr[w].returned
    \/ thr[w].pc = "done" /\ thr[w].exc = "RecursionError"

----------------------------------------------------------------------------
(* The two dispatchers (ClassSpec).                                        *)

\* C25: run_command of terminal.py and run_command of app.py classify
\* alike: whatever line a thread hands to run_command and whether the
\* translator is enabled or not, both route it to the same path (the same
\* builtin handler, the translator or the external process adapter).
C25_DispatchersClassifyAlike ==
    \A w \in Threads :
        thr[w].pc = "run"
        => Route("cli", thr[w].cur, AI_ENABLED) = Route("web", thr[w].cur, AI_ENABLED)

----------------------------------------------------------------------------
(* Isolation of the session histories (SeqSpec).                           *)

\* The list kept under token s in store h, empty when there is none.
LedgerOf(h, s) == IF s \in DOMAIN h THEN h[s] ELSE <<>>

\* C24: a step of a request with session token A leaves the history of
\* every other session as it was; a session's history changes only by a
\* dispatch of that session appending its own entry; the history builtin
\* and GET /history of a session list the entries of that session's
\* history and no other.
C24_SessionHistoriesIsolated ==
    [][\A w \in Workers :
          thr'[w] # thr[w]
          => /\ \A s \in Sessions \ {thr[w].sid, thr'[w].sid} :
                   LedgerOf(command_history', s) = LedgerOf(command_history, s)
             /\ \A s \in Sessions :
                   LedgerOf(command_history', s) # LedgerOf(command_history, s)
                   => /\ thr[w].sid = s
                      /\ thr[w].endpoint = "/execute"
                      /\ LedgerOf(command_history', s) =
                            Append(LedgerOf(command_history, s),
                                   [command |-> thr[w].command,
                                    output |-> thr[w].result.output,
                                    success |-> thr[w].result.success])
             /\ BuiltinStep(w, "history")
                => LET shown == LastN(LedgerOf(command_history, thr[w].sid), 20)
                       lines == thr'[w].result.output.items
                   IN /\ Len(lines) = Len(shown)
                      /\ \A i \in 1..Len(lines) : lines[i] = Listed(shown[i])
             /\ HistoryStep(w)
                => thr'[w].resp.history = LedgerOf(command_history, thr'[w].sid)]_vars

\* Session s2 has asked for its history, by the builtin or by GET /history,
\* while the history of session s1 holds an entry, and was told it has none.
C24_Witness ==
    /\ LedgerOf(command_history, "s1") # <<>>
    /\ \E w \in Workers :
          /\ thr[w].sid = "s2"
          /\ \/ /\ thr[w].returned
                /\ LastHandler(w) = "history"
                /\ thr[w].result.output.tag = "No commands in history"
             \/ /\ thr[w].pc = "done"
                /\ thr[w].endpoint = "/history"
                /\ thr[w].resp.history = <<>>

====
